---- MODULE Spec2Model ----
(***************************************************************************)
(* Model of the Synapse bridge facade (Bridge.SynapseBridge): route         *)
(* eligibility, output estimation and transaction-shape selection.         *)
(*                                                                         *)
(* One facade instance is bound to one chain.  A caller issues estimate    *)
(* and build calls; an estimate suspends at each collaborator query, a     *)
(* build runs to its returned promise without suspending.                  *)
(***************************************************************************)
EXTENDS Integers, Sequences, FiniteSets, TLC

\* ------------------------------------------------------------------ bounds
MaxAmount == 2
MaxAmountTo == 1
MaxFee == 2
MaxClock == 1
MaxLen == 2

\* ------------------------------------------------------- registry: chains
Chains == {"ETH", "ARBITRUM", "AVALANCHE", "BSC"}

\* ETH_TOKEN_CHAINS of networks.ts, restricted to the modelled chains.
ETH_TOKEN_CHAINS == {"ETH", "BOBA", "ARBITRUM"}

\* BridgeUtils.isL2ETHChain: the peripheral chains that carry an ETH pool.
isL2ETHChain(c) == c \in {"ARBITRUM", "AVALANCHE"}

\* ------------------------------------------------------- registry: tokens
AllTokens ==
  {"NUSD", "USDC", "DAI", "SYN", "HIGH", "DOG", "FRAX", "NETH", "WETH", "ETH",
   "WETH_E", "AVWETH", "AVAX", "WAVAX", "MOVR", "WMOVR", "GMX"}

\* The tokens a caller's request is drawn from.
RequestTokens ==
  {"NUSD", "USDC", "SYN", "DOG", "NETH", "WETH", "ETH", "WETH_E", "AVWETH",
   "AVAX", "WAVAX", "GMX"}

\* Token.swapType
swapType(t) ==
  CASE t \in {"NUSD", "USDC", "DAI"} -> "USD"
    [] t \in {"NETH", "WETH", "ETH", "WETH_E", "AVWETH"} -> "ETH"
    [] t \in {"AVAX", "WAVAX"} -> "AVAX"
    [] t \in {"MOVR", "WMOVR"} -> "MOVR"
    [] OTHER -> t

\* Token.isWrappedToken and Token.underlyingToken
isWrappedToken(t) == t \in {"WAVAX", "WMOVR"}

underlyingToken(t) ==
  CASE t = "WAVAX" -> "AVAX"
    [] t = "WMOVR" -> "MOVR"
    [] OTHER -> t

\* Tokens.isMintBurnToken
isMintBurnToken(t) == t \in {"SYN", "HIGH", "DOG", "FRAX", "GMX"}

\* BridgeUtils.isETHLikeToken: the ERC-20 ETH variants of the peripheral chains.
isETHLikeToken(t) == t \in {"WETH_E"}

\* Token.address(chainId): a token's contract address on a chain.
address(t, c) == <<"addr", t, c>>

\* Token.wrapperAddress(chainId)
wrapperAddress(t, c) == <<"wrapper", t, c>>

\* SwapPools.bridgeSwappableTypePoolsByChain[chainId]?.[swapType]?.poolTokens;
\* the empty sequence stands for an absent entry (undefined).
poolTokens(c, st) ==
  CASE c = "ETH" /\ st = "USD" -> <<"DAI", "USDC">>
    [] c = "ETH" /\ st = "ETH" -> <<"WETH">>
    [] c = "ETH" /\ st \in {"SYN", "HIGH", "DOG", "FRAX"} -> <<st>>
    [] c = "ARBITRUM" /\ st = "USD" -> <<"NUSD", "USDC">>
    [] c = "ARBITRUM" /\ st = "ETH" -> <<"NETH", "WETH">>
    [] c = "ARBITRUM" /\ st \in {"SYN", "GMX"} -> <<st>>
    [] c = "AVALANCHE" /\ st = "USD" -> <<"NUSD", "USDC">>
    [] c = "AVALANCHE" /\ st = "ETH" -> <<"NETH", "AVWETH">>
    [] c = "AVALANCHE" /\ st = "AVAX" -> <<"WAVAX">>
    [] c = "AVALANCHE" /\ st \in {"SYN", "GMX"} -> <<st>>
    [] c = "BSC" /\ st = "USD" -> <<"NUSD", "USDC">>
    [] c = "BSC" /\ st \in {"SYN", "HIGH", "DOG"} -> <<st>>
    [] OTHER -> <<>>

Range(s) == {s[i] : i \in DOMAIN s}

\* Network.tokens (SwapPools.getAllSwappableTokensForNetwork): the pool tokens of the
\* chain, the pool's LP token on the canonical chain and the chain's aliases.
networkTokens(c) ==
  UNION {Range(poolTokens(c, st)) : st \in {swapType(t) : t \in AllTokens}}
    \cup (IF c = "ETH" THEN {"NUSD"} ELSE {})
    \cup (IF c = "AVALANCHE" THEN {"WETH_E", "AVAX"} ELSE {})

\* Network.supportsToken
supportsToken(c, t) ==
  IF t = "ETH" /\ c \in ETH_TOKEN_CHAINS
    THEN TRUE
    ELSE t \in networkTokens(c)

\* TokenSwap.bridgeSwapSupported: both tokens live on their chains and belong to the
\* same pool category.
bridgeSwapSupported(chainIdFrom, tokenFrom, tokenTo, chainIdTo) ==
  IF ~supportsToken(chainIdFrom, tokenFrom)
    THEN [swapSupported |-> FALSE, reason |-> "tokenFrom not supported on chainIdFrom"]
  ELSE IF ~supportsToken(chainIdTo, tokenTo)
    THEN [swapSupported |-> FALSE, reason |-> "tokenTo not supported on chainIdTo"]
  ELSE IF swapType(tokenFrom) # swapType(tokenTo)
    THEN [swapSupported |-> FALSE, reason |-> "non-matching swap types"]
  ELSE [swapSupported |-> TRUE, reason |-> ""]

\* SynapseBridge.swapSupported
swapSupported(c, r) ==
  LET res == bridgeSwapSupported(c, r.tokenFrom, r.tokenTo, r.chainIdTo)
  IN  <<res.swapSupported, res.reason>>

\* ------------------------------------------------------------ token args
Threw == [threw |-> TRUE]

\* makeBridgeTokenArgs.checkAndChangeToken
checkAndChangeToken(t, check, swappy) == IF t = check THEN swappy ELSE t

\* makeBridgeTokenArgs: the normalisation selected by tokenFrom.swapType
bridgeTokens(tokenFrom, tokenTo) ==
  CASE swapType(tokenFrom) = "ETH" ->
         <<checkAndChangeToken(tokenFrom, "ETH", "WETH"),
           checkAndChangeToken(tokenTo, "ETH", "WETH")>>
    [] swapType(tokenFrom) = "AVAX" ->
         <<checkAndChangeToken(tokenFrom, "AVAX", "WAVAX"),
           checkAndChangeToken(tokenTo, "AVAX", "WAVAX")>>
    [] swapType(tokenFrom) = "MOVR" ->
         <<checkAndChangeToken(tokenFrom, "MOVR", "WMOVR"),
           checkAndChangeToken(tokenTo, "MOVR", "WMOVR")>>
    [] OTHER -> <<tokenFrom, tokenTo>>

\* findSymbol without its alias cases: every token is compared with itself.
findSymbol_NoAliasCase(tokA, tokB) == tokA = tokB

\* makeBridgeTokenArgs.findSymbol
findSymbol(tokA, tokB) ==
  LET compareTok ==
        IF tokB = "WETH_E" THEN "AVWETH"
        ELSE IF tokB = "WETH" THEN "WETH"
        ELSE IF isWrappedToken(tokB) THEN underlyingToken(tokB)
        ELSE tokB
  IN  tokA = compareTok

\* Array.findIndex over the pool-token list: 0-based, -1 when nothing matches.
findIndex(toks, t) ==
  LET hits == {i \in DOMAIN toks : findSymbol(toks[i], t)}
  IN  IF hits = {} THEN -1
      ELSE (CHOOSE i \in hits : \A j \in hits : i <= j) - 1

\* makeBridgeTokenArgs.makeTokenArgs; an absent pool entry makes toks.findIndex throw.
makeTokenArgs(c, t) ==
  LET toks == poolTokens(c, swapType(t))
  IN  IF toks = <<>> THEN Threw
      ELSE [threw |-> FALSE, toks |-> toks, idx |-> findIndex(toks, t)]

\* SynapseBridge.makeBridgeTokenArgs
makeBridgeTokenArgs(c, r) ==
  LET bt == bridgeTokens(r.tokenFrom, r.tokenTo)
      from == makeTokenArgs(c, bt[1])
      to == makeTokenArgs(r.chainIdTo, bt[2])
  IN  IF from.threw \/ to.threw THEN Threw
      ELSE [threw |-> FALSE,
            fromChainTokens |-> from.toks,
            toChainTokens |-> to.toks,
            tokenFrom |-> bt[1],
            tokenTo |-> bt[2],
            tokenIndexFrom |-> from.idx,
            tokenIndexTo |-> to.idx]

\* ------------------------------------------------------------- estimation
\* BridgeUtils.subBigNumSafe: subtraction clamped at zero.
subBigNumSafe(a, b) == IF a > b THEN a - b ELSE 0

\* calculateBridgeRate.checkEthy
checkEthy(c, t) == isL2ETHChain(c) /\ swapType(t) = "ETH"

\* One observable step of a call: a collaborator query or an internal computation.
Ev(kind, amount) == [kind |-> kind, amount |-> amount]

\* An amount query of calculateBridgeRate: the side it computes ("origin" or "dest"),
\* the amount it is called with and its pool indices, in call order.
Query(side, kind, amount, indices) ==
  [kind |-> kind, amount |-> amount, indices |-> indices, side |-> side]

FeeQueries == {"calculateSwapFee"}
LiquidityQueries == {"calculateTokenAmount", "calculateRemoveLiquidityOneToken"}
SwapQueries == {"calculateSwapL2Zap"}
PopulateCalls == {"populateTransaction"}
CollaboratorCalls == FeeQueries \cup LiquidityQueries \cup SwapQueries \cup PopulateCalls

Kinds(tr) == {tr[i].kind : i \in DOMAIN tr}

\* originCase without its first case: a zero amount is not short-circuited.
originCase_NoZeroCase(c, r, ta) ==
  LET ethToEth == c = "ETH" /\ checkEthy(r.chainIdTo, ta.tokenTo)
  IN  IF ethToEth \/ isMintBurnToken(ta.tokenFrom) \/ isWrappedToken(ta.tokenFrom)
        THEN "pass"
      ELSE IF c = "ETH" THEN "calculateTokenAmount"
      ELSE "calculateSwapL2Zap"

\* calculateBridgeRate, the origin-side switch: which source of amountToReceive_from
\* applies to the normalised tokens.
originCase(c, r, ta) ==
  LET ethToEth == c = "ETH" /\ checkEthy(r.chainIdTo, ta.tokenTo)
  IN  IF r.amountFrom = 0 THEN "zero"
      ELSE IF ethToEth \/ isMintBurnToken(ta.tokenFrom) \/ isWrappedToken(ta.tokenFrom)
        THEN "pass"
      ELSE IF c = "ETH" THEN "calculateTokenAmount"
      ELSE "calculateSwapL2Zap"

\* destCase without its first case: a zero fee-adjusted amount is not short-circuited.
destCase_NoZeroCase(c, r, ta, amt) ==
  LET ethFromEth == r.chainIdTo = "ETH" /\ checkEthy(c, ta.tokenFrom)
  IN  IF ethFromEth \/ isMintBurnToken(ta.tokenTo) \/ isWrappedToken(ta.tokenTo)
        THEN "pass"
      ELSE IF r.chainIdTo = "ETH" THEN "calculateRemoveLiquidityOneToken"
      ELSE "calculateSwapL2Zap"

\* destCase without the mint/burn pass-through: only wrapped tokens skip the pool math.
destCase_NoMintBurnPass(c, r, ta, amt) ==
  LET ethFromEth == r.chainIdTo = "ETH" /\ checkEthy(c, ta.tokenFrom)
  IN  IF amt = 0 THEN "zero"
      ELSE IF ethFromEth \/ isWrappedToken(ta.tokenTo) THEN "pass"
      ELSE IF r.chainIdTo = "ETH" THEN "calculateRemoveLiquidityOneToken"
      ELSE "calculateSwapL2Zap"

\* calculateBridgeRate, the destination-side switch.
destCase(c, r, ta, amt) ==
  LET ethFromEth == r.chainIdTo = "ETH" /\ checkEthy(c, ta.tokenFrom)
  IN  IF amt = 0 THEN "zero"
      ELSE IF ethFromEth \/ isMintBurnToken(ta.tokenTo) \/ isWrappedToken(ta.tokenTo)
        THEN "pass"
      ELSE IF r.chainIdTo = "ETH" THEN "calculateRemoveLiquidityOneToken"
      ELSE "calculateSwapL2Zap"

\* -------------------------------------------------------------- slippage
\* The two deadline windows of BridgeUtils.getSlippages, in clock ticks.
OriginWindow == 1
BridgeWindow == 2

\* A minimum-output threshold: the amount it is derived from and its tolerance tier.
MinOut(amount, tier) == [of |-> amount, tier |-> tier]

\* BridgeUtils.getSlippages, read at clock time t.
getSlippages(amountFrom, amountTo, t) ==
  [transactionDeadline |-> t + OriginWindow,
   bridgeTransactionDeadline |-> t + BridgeWindow,
   minToSwapDestFromOrigin |-> MinOut(amountFrom, "low"),
   minToSwapDest |-> MinOut(amountTo, "low"),
   minToSwapOriginMediumSlippage |-> MinOut(amountFrom, "medium"),
   minToSwapDestFromOriginMediumSlippage |-> MinOut(amountFrom, "medium"),
   minToSwapOriginHighSlippage |-> MinOut(amountFrom, "high"),
   minToSwapDestFromOriginHighSlippage |-> MinOut(amountFrom, "high")]

\* ------------------------------------------------------- shape selection
\* A populated call: the contract it is made on, the call variant, its ordered
\* parameters and the native-value override (empty when there is none).
Shape(contract, tag, params, value) ==
  [contract |-> contract, tag |-> tag, params |-> params, value |-> value]

Undefined == [tag |-> "undefined"]

\* What a builder did: the calls it populated, in order, and the value it returned.
Returned(txn) == [populated |-> <<txn>>, ret |-> txn]
FellThrough == [populated |-> <<>>, ret |-> Undefined]

includes(list, x) == \E i \in DOMAIN list : list[i] = x

\* BridgeUtils.makeEasyParams / makeEasySubParams / depositETHParams / makeOverrides
makeEasyParams(args, c, t) == <<args.addressTo, args.chainIdTo, address(t, c), args.amountFrom>>
makeEasySubParams(args, c, t) == <<args.addressTo, args.chainIdTo, address(t, c)>>
depositETHParams(args) == <<args.addressTo, args.chainIdTo, args.amountFrom>>
makeOverrides(amount, withValueOverride) == IF withValueOverride THEN <<amount>> ELSE <<>>

\* BridgeUtils.DepositIfChainTokens: the per-chain override table; altChainId is
\* "none" when the entry has no alternative chain.
DepositIfChainTokens ==
  <<[chainId |-> "AVALANCHE", tokens |-> <<"WAVAX">>, depositEth |-> TRUE, altChainId |-> "ARBITRUM"],
    [chainId |-> "BSC", tokens |-> <<"DOG">>, depositEth |-> FALSE, altChainId |-> "none"]>>

\* checkEasyArgs with its first two cases in the other order: the deposit list is
\* looked at before the redeem list.
checkEasyArgs_DepositFirst(c, args, easyDeposits, easyRedeems, easyDepositETH) ==
  LET params == makeEasyParams(args, c, args.tokenTo)
  IN  IF includes(easyDeposits, args.tokenTo)
        THEN [isEasy |-> TRUE, txn |-> Shape("zapBridge", "deposit", params, <<>>)]
      ELSE IF includes(easyRedeems, args.tokenTo)
        THEN [isEasy |-> TRUE, txn |-> Shape("zapBridge", "redeem", params, <<>>)]
      ELSE IF includes(easyDepositETH, args.tokenTo)
        THEN [isEasy |-> TRUE,
              txn |-> Shape("zapBridge", "depositETH", depositETHParams(args),
                            <<args.amountFrom>>)]
      ELSE [isEasy |-> FALSE, txn |-> Undefined]

\* SynapseBridge.checkEasyArgs
checkEasyArgs(c, args, easyDeposits, easyRedeems, easyDepositETH) ==
  LET params == makeEasyParams(args, c, args.tokenTo)
  IN  IF includes(easyRedeems, args.tokenTo)
        THEN [isEasy |-> TRUE, txn |-> Shape("zapBridge", "redeem", params, <<>>)]
      ELSE IF includes(easyDeposits, args.tokenTo)
        THEN [isEasy |-> TRUE, txn |-> Shape("zapBridge", "deposit", params, <<>>)]
      ELSE IF includes(easyDepositETH, args.tokenTo)
        THEN [isEasy |-> TRUE,
              txn |-> Shape("zapBridge", "depositETH", depositETHParams(args),
                            <<args.amountFrom>>)]
      ELSE [isEasy |-> FALSE, txn |-> Undefined]

\* fromChainTokens.map((t) => args.tokenFrom.isEqual(t) ? amountFrom : Zero)
liquidityAmounts(args, tokenArgs) ==
  [i \in DOMAIN tokenArgs.fromChainTokens |->
     IF args.tokenFrom = tokenArgs.fromChainTokens[i] THEN args.amountFrom ELSE 0]

\* easyListsETH without the conditional push of NUSD.
easyListsETH_NoNusdPush(args) ==
  [easyRedeems |-> <<"SYN">>,
   easyDeposits |-> <<"HIGH", "DOG", "FRAX">>,
   easyDepositETH |-> <<"NETH">>]

\* buildETHMainnetBridgeTxn: the direct-route membership lists of the canonical chain.
easyListsETH(args) ==
  [easyRedeems |-> <<"SYN">>,
   easyDeposits |-> <<"HIGH", "DOG", "FRAX">>
                      \o (IF args.tokenFrom = "NUSD" THEN <<"NUSD">> ELSE <<>>),
   easyDepositETH |-> <<"NETH">>]

\* SynapseBridge.buildETHMainnetBridgeTxn, called at clock time t.
buildETHMainnetBridgeTxn(c, args, tokenArgs, t) ==
  LET lists == easyListsETH(args)
      easy == checkEasyArgs(c, args, lists.easyDeposits, lists.easyRedeems,
                            lists.easyDepositETH)
      s == getSlippages(args.amountFrom, args.amountTo, t)
  IN  IF easy.isEasy /\ easy.txn # Undefined THEN Returned(easy.txn)
      ELSE IF args.tokenTo = "NUSD" THEN
        IF args.tokenFrom # "NUSD"
          THEN Returned(Shape("zapBridge", "zapAndDeposit",
                 <<args.addressTo, args.chainIdTo, address("NUSD", c),
                   liquidityAmounts(args, tokenArgs),
                   s.minToSwapDest, s.transactionDeadline>>, <<>>))
          ELSE FellThrough
      ELSE IF isETHLikeToken(args.tokenTo) \/ args.tokenTo = "WETH"
        THEN Returned(Shape("zapBridge", "depositETHAndSwap",
               depositETHParams(args)
                 \o <<0, tokenArgs.tokenIndexTo, s.minToSwapDestFromOrigin,
                      s.bridgeTransactionDeadline>>,
               <<args.amountFrom>>))
      ELSE Returned(Shape("zapBridge", "zapAndDepositAndSwap",
             <<args.addressTo, args.chainIdTo, address("NUSD", c),
               liquidityAmounts(args, tokenArgs),
               s.minToSwapOriginMediumSlippage, s.transactionDeadline,
               0, tokenArgs.tokenIndexTo,
               s.minToSwapDestFromOriginMediumSlippage,
               s.bridgeTransactionDeadline>>, <<>>))

\* buildL2BridgeTxn: one pass of the forEach over DepositIfChainTokens, from entry i.
RECURSIVE depositIfChain(_, _, _)
depositIfChain(c, lists, i) ==
  IF i > Len(DepositIfChainTokens) THEN lists
  ELSE
    LET e == DepositIfChainTokens[i]
        hasAltChain == e.altChainId # "none"
        tokenHashes == e.tokens
        next ==
          IF c = e.chainId
            THEN IF e.depositEth
                   THEN [lists EXCEPT !.easyDepositETH = @ \o tokenHashes]
                   ELSE [lists EXCEPT !.easyDeposits = @ \o tokenHashes]
          ELSE IF hasAltChain
            THEN IF c = e.altChainId
                   THEN [lists EXCEPT !.easyRedeems = @ \o tokenHashes]
                   ELSE lists
          ELSE [lists EXCEPT !.easyRedeems = @ \o tokenHashes]
    IN  depositIfChain(c, next, i + 1)

\* easyListsL2 without the conditional push of NUSD.
easyListsL2_NoNusdPush(c, args) ==
  depositIfChain(c,
    [easyDeposits |-> <<>>,
     easyRedeems |-> <<"SYN", "HIGH", "DOG", "FRAX">>,
     easyDepositETH |-> <<>>],
    1)

\* buildL2BridgeTxn: the direct-route membership lists of a peripheral chain.
easyListsL2(c, args) ==
  depositIfChain(c,
    [easyDeposits |-> <<>>,
     easyRedeems |-> <<"SYN", "HIGH", "DOG", "FRAX">>
                       \o (IF args.tokenFrom = "NUSD" THEN <<"NUSD">> ELSE <<>>),
     easyDepositETH |-> <<>>],
    1)

\* buildL2BridgeTxn.easyRedeemAndSwap
easyRedeemAndSwap(c, args, tokenArgs, s, baseToken) ==
  Shape("zapBridge", "redeemAndSwap",
    makeEasyParams(args, c, baseToken)
      \o <<0, tokenArgs.tokenIndexTo, s.minToSwapDest, s.transactionDeadline>>,
    <<>>)

\* easySwapAndRedeemAndSwap with the medium-tolerance thresholds of the canonical chain.
easySwapAndRedeemAndSwap_MediumTier(c, args, tokenArgs, s, baseToken, withValueOverride) ==
  Shape("zapBridge", "swapAndRedeemAndSwap",
    makeEasySubParams(args, c, baseToken)
      \o <<tokenArgs.tokenIndexFrom, 0, args.amountFrom,
           s.minToSwapOriginMediumSlippage, s.transactionDeadline,
           0, tokenArgs.tokenIndexTo,
           s.minToSwapDestFromOriginMediumSlippage, s.bridgeTransactionDeadline>>,
    makeOverrides(args.amountFrom, withValueOverride))

\* buildL2BridgeTxn.easySwapAndRedeemAndSwap
easySwapAndRedeemAndSwap(c, args, tokenArgs, s, baseToken, withValueOverride) ==
  Shape("zapBridge", "swapAndRedeemAndSwap",
    makeEasySubParams(args, c, baseToken)
      \o <<tokenArgs.tokenIndexFrom, 0, args.amountFrom,
           s.minToSwapOriginHighSlippage, s.transactionDeadline,
           0, tokenArgs.tokenIndexTo,
           s.minToSwapDestFromOriginHighSlippage, s.bridgeTransactionDeadline>>,
    makeOverrides(args.amountFrom, withValueOverride))

\* swapAndRedeemCall with the origin deadline passed where the minimum output belongs.
swapAndRedeemCall_DeadlineAsMin(c, args, tokenArgs, s, tag, baseToken, value) ==
  Shape("zapBridge", tag,
    makeEasySubParams(args, c, baseToken)
      \o <<tokenArgs.tokenIndexFrom, 0, args.amountFrom,
           s.transactionDeadline, s.transactionDeadline>>,
    value)

\* The swapAndRedeem / swapETHAndRedeem call of buildL2BridgeTxn.
swapAndRedeemCall(c, args, tokenArgs, s, tag, baseToken, value) ==
  Shape("zapBridge", tag,
    makeEasySubParams(args, c, baseToken)
      \o <<tokenArgs.tokenIndexFrom, 0, args.amountFrom,
           s.minToSwapOriginHighSlippage, s.transactionDeadline>>,
    value)

\* buildL2ToETH without the ETH-like case: every token but NETH takes the native-value
\* variant.
buildL2ToETH_NoEthLikeCase(c, args, tokenArgs, s) ==
  IF isL2ETHChain(c) THEN
    IF args.tokenFrom = "NETH"
      THEN Shape("zapBridge", "redeem", makeEasyParams(args, c, "NETH"), <<>>)
    ELSE Shape("zapBridge", "swapETHAndRedeem",
           makeEasySubParams(args, c, "NETH")
             \o <<tokenArgs.tokenIndexFrom, 0, args.amountFrom,
                  s.minToSwapOriginHighSlippage, s.transactionDeadline>>,
           <<args.amountFrom>>)
  ELSE IF args.tokenFrom = "NUSD"
    THEN Shape("zapBridge", "redeemAndRemove",
           makeEasySubParams(args, c, "NUSD")
             \o <<args.amountFrom, tokenArgs.tokenIndexTo, s.minToSwapDest,
                  s.transactionDeadline>>, <<>>)
  ELSE Shape("zapBridge", "swapAndRedeemAndRemove",
         makeEasySubParams(args, c, "NUSD")
           \o <<tokenArgs.tokenIndexFrom, 0, args.amountFrom,
                s.minToSwapOriginHighSlippage, s.transactionDeadline,
                tokenArgs.tokenIndexTo, s.minToSwapDestFromOriginHighSlippage,
                s.bridgeTransactionDeadline>>, <<>>)

\* buildL2BridgeTxn, the default branch with the canonical chain as destination.
buildL2ToETH(c, args, tokenArgs, s) ==
  IF isL2ETHChain(c) THEN
    IF args.tokenFrom = "NETH"
      THEN Shape("zapBridge", "redeem", makeEasyParams(args, c, "NETH"), <<>>)
    ELSE IF isETHLikeToken(args.tokenFrom)
      THEN swapAndRedeemCall(c, args, tokenArgs, s, "swapAndRedeem", "NETH", <<>>)
    ELSE swapAndRedeemCall(c, args, tokenArgs, s, "swapETHAndRedeem", "NETH",
                           <<args.amountFrom>>)
  ELSE IF args.tokenFrom = "NUSD"
    THEN Shape("zapBridge", "redeemAndRemove",
           makeEasySubParams(args, c, "NUSD")
             \o <<args.amountFrom, tokenArgs.tokenIndexTo, s.minToSwapDest,
                  s.transactionDeadline>>, <<>>)
  ELSE Shape("zapBridge", "swapAndRedeemAndRemove",
         makeEasySubParams(args, c, "NUSD")
           \o <<tokenArgs.tokenIndexFrom, 0, args.amountFrom,
                s.minToSwapOriginHighSlippage, s.transactionDeadline,
                tokenArgs.tokenIndexTo, s.minToSwapDestFromOriginHighSlippage,
                s.bridgeTransactionDeadline>>, <<>>)

\* buildL2BridgeTxn, the default branch with a peripheral chain as destination.
buildL2ToL2(c, args, tokenArgs, s) ==
  IF args.tokenFrom = "NUSD" THEN easyRedeemAndSwap(c, args, tokenArgs, s, "NUSD")
  ELSE IF args.tokenFrom = "NETH" THEN easyRedeemAndSwap(c, args, tokenArgs, s, "NETH")
  ELSE IF swapType(args.tokenFrom) = "ETH" THEN
    IF isETHLikeToken(args.tokenFrom)
      THEN easySwapAndRedeemAndSwap(c, args, tokenArgs, s, "NETH", FALSE)
      ELSE Shape("zapBridge", "swapETHAndRedeemAndSwap",
             makeEasySubParams(args, c, "NETH")
               \o <<tokenArgs.tokenIndexFrom, 0, args.amountFrom,
                    s.minToSwapOriginHighSlippage, s.transactionDeadline,
                    0, tokenArgs.tokenIndexTo,
                    s.minToSwapDestFromOriginHighSlippage,
                    s.bridgeTransactionDeadline>>,
             <<args.amountFrom>>)
  ELSE easySwapAndRedeemAndSwap(c, args, tokenArgs, s, "NUSD", FALSE)

\* SynapseBridge.buildL2BridgeTxn, called at clock time t.
buildL2BridgeTxn(c, args, tokenArgs0, t) ==
  LET tokenArgs == [tokenArgs0 EXCEPT
                      !.tokenFrom = IF @ = "AVWETH" THEN "WETH_E" ELSE @]
      lists == easyListsL2(c, args)
      easy == checkEasyArgs(c, args, lists.easyDeposits, lists.easyRedeems,
                            lists.easyDepositETH)
      s == getSlippages(args.amountFrom, args.amountTo, t)
  IN  IF easy.isEasy /\ easy.txn # Undefined THEN Returned(easy.txn)
      ELSE IF args.tokenTo = "NUSD"
        THEN Returned(swapAndRedeemCall(c, args, tokenArgs, s, "swapAndRedeem", "NUSD", <<>>))
      ELSE IF args.tokenTo = "GMX" THEN
        IF c = "ARBITRUM"
          THEN Returned(Shape("zapBridge", "deposit", makeEasyParams(args, c, "GMX"), <<>>))
          ELSE Returned(Shape("bridge", "redeem",
                 <<args.addressTo, args.chainIdTo, wrapperAddress("GMX", c),
                   args.amountFrom>>, <<>>))
      ELSE IF args.chainIdTo = "ETH"
        THEN Returned(buildL2ToETH(c, args, tokenArgs, s))
      ELSE Returned(buildL2ToL2(c, args, tokenArgs, s))

\* buildBridgeTokenTransaction: the outcome of one call made at clock time t, with the
\* steps it took in order.
Rejected(error) == [status |-> "rejected", error |-> error]
Resolved(value) == [status |-> "resolved", value |-> value]

buildBridgeTokenTransaction(c, r, t) ==
  LET tokenArgs == makeBridgeTokenArgs(c, r)
      resolve == <<Ev("makeBridgeTokenArgs", 0)>>
  IN  IF tokenArgs.threw
        THEN [trace |-> resolve, result |-> Rejected("TypeError")]
      ELSE IF r.addressTo = "absent" \/ r.addressTo = ""
        THEN [trace |-> resolve \o <<Ev("addressToCheck", 0)>>,
              result |-> Rejected("addressTo cannot be empty string or undefined")]
      ELSE
        LET args == [r EXCEPT !.tokenFrom = tokenArgs.tokenFrom,
                              !.tokenTo = tokenArgs.tokenTo]
            built == IF c = "ETH"
                       THEN buildETHMainnetBridgeTxn(c, args, tokenArgs, t)
                       ELSE buildL2BridgeTxn(c, args, tokenArgs, t)
        IN  [trace |-> resolve \o <<Ev("addressToCheck", 0)>>
                         \o [i \in DOMAIN built.populated |->
                               [kind |-> "populateTransaction",
                                amount |-> r.amountFrom,
                                shape |-> built.populated[i]]],
             result |-> IF built.ret = Undefined
                          THEN Rejected("TypeError")
                          ELSE Resolved(built.ret)]

\* ---------------------------------------------------------- confirmations
\* REQUIRED_CONFS: the confirmation table.
REQUIRED_CONFS ==
  [ETH |-> 7, OPTIMISM |-> 1, BSC |-> 14, POLYGON |-> 128, FANTOM |-> 5, BOBA |-> 1,
   MOONBEAM |-> 21, MOONRIVER |-> 21, ARBITRUM |-> 40, AVALANCHE |-> 5, HARMONY |-> 1]

\* getRequiredConfirmationsForBridge with 0 in place of the sentinel.
getRequiredConfirmationsForBridge_ZeroDefault(network) ==
  IF network \in DOMAIN REQUIRED_CONFS THEN REQUIRED_CONFS[network] ELSE 0

\* getRequiredConfirmationsForBridge: REQUIRED_CONFS[chainId] ?? -1
getRequiredConfirmationsForBridge(network) ==
  IF network \in DOMAIN REQUIRED_CONFS THEN REQUIRED_CONFS[network] ELSE -1

\* The chain ids getRequiredConfirmationsForBridge is called with: those of the table
\* and two that the table does not hold.
ConfirmationChains == DOMAIN REQUIRED_CONFS \cup {"AURORA", "CRONOS"}

\* ------------------------------------------------------------------ state
VARIABLES
  chainId,   \* the chain the facade is bound to (SynapseBridge.chainId)
  requiredConfirmations,  \* SynapseBridge.requiredConfirmations
  calls,     \* the calls of concurrent callers in flight, with each call's locals
  exec,      \* the executeBridgeTokenTransaction call in flight, with its locals
  op,        \* the operation in progress: "idle", "estimate" or "build"
  req,       \* the request object the caller passed
  pc,        \* where the call stands
  trace,     \* the steps and collaborator calls of the call, in order
  feeResp,   \* the fee-oracle request (bridgeFeeRequest) of the call
  amt,       \* calculateBridgeRate's amountToReceive_from
  result,    \* what the call's promise settled to
  at,        \* the clock reading the call took
  prev,      \* the result and clock reading of the preceding identical build call
  now        \* the wall clock

vars == <<chainId, requiredConfirmations, calls, exec, op, req, pc, trace, feeResp, amt, result, at, prev, now>>

Pending == [status |-> "pending"]
NoPrev == [status |-> "none"]
NoFee == [st |-> "none", fee |-> 0]
NoRequest ==
  [tokenFrom |-> "NUSD", tokenTo |-> "NUSD", chainIdTo |-> "ETH",
   amountFrom |-> 0, amountTo |-> 0, addressTo |-> "absent"]

\* BridgeParams: what estimateBridgeTokenOutput is called with.
EstimateRequests ==
  [tokenFrom : RequestTokens, tokenTo : RequestTokens, chainIdTo : Chains,
   amountFrom : 0..MaxAmount, amountTo : {0}, addressTo : {"absent"}]

\* BridgeTransactionParams: what buildBridgeTokenTransaction is called with.
BuildRequests ==
  [tokenFrom : RequestTokens, tokenTo : RequestTokens, chainIdTo : Chains,
   amountFrom : 0..MaxAmount, amountTo : 0..MaxAmountTo,
   addressTo : {"absent", "", "0xA"}]

\* Two callers that use the facade at the same time, and the requests they make.
Callers == {"a", "b"}

ConcurrentRequests ==
  [tokenFrom : {"NUSD", "USDC"}, tokenTo : {"NUSD"}, chainIdTo : {"ETH", "BSC"},
   amountFrom : {MaxAmount}, amountTo : {MaxAmountTo}, addressTo : {"0xA"}]

\* The locals of one call: its request, where it stands, the collaborator responses
\* it received, amountToReceive_from, the settled promise and, for a build, the
\* membership lists it made.
NoResponse == [st |-> "none", v |-> 0]
NoLists == [easyRedeems |-> <<>>, easyDeposits |-> <<>>, easyDepositETH |-> <<>>]
IdleCall ==
  [op |-> "idle", req |-> NoRequest, pc |-> "idle", origin |-> NoResponse,
   fee |-> NoFee, dest |-> NoResponse, amt |-> 0, result |-> Pending,
   lists |-> NoLists]

\* The pool-token lists a (chain, category) entry of the registry may hold: up to
\* MaxLen distinct tokens, in pool order.
PoolListTokens == {"NETH", "WETH", "AVWETH", "WETH_E", "AVAX", "WAVAX"}

PoolLists ==
  {toks \in UNION {[1..n -> PoolListTokens] : n \in 1..MaxLen} :
     \A i, j \in DOMAIN toks : i # j => toks[i] # toks[j]}

\* BridgeTransactionParams: what executeBridgeTokenTransaction is called with.
ExecuteTokens == {"NUSD", "USDC", "ETH", "WETH", "SYN"}

ExecuteRequests ==
  [tokenFrom : ExecuteTokens, tokenTo : ExecuteTokens, chainIdTo : Chains,
   amountFrom : 0..MaxAmount, amountTo : {MaxAmountTo},
   addressTo : {"absent", "", "0xA"}]

\* signer.getAddress()
SignerAddress == "0xS"

\* The locals of one executeBridgeTokenTransaction call: args (the caller's request
\* object), the request as the caller passed it, where the call stands, the answers
\* to the balance and the allowance query, the promise of the populated transaction,
\* the collaborator calls made so far and the settled promise.
IdleExec ==
  [pc |-> "idle", args |-> NoRequest, given |-> NoRequest,
   balance |-> NoResponse, allowance |-> NoResponse, txnProm |-> Pending,
   trace |-> <<>>, result |-> Pending]

\* SynapseBridge.constructor: the facade is bound to one chain.
Init ==
  /\ chainId \in Chains
  /\ requiredConfirmations = getRequiredConfirmationsForBridge(chainId)
  /\ calls = [k \in Callers |-> IdleCall]
  /\ exec = IdleExec
  /\ op = "idle"
  /\ req = NoRequest
  /\ pc = "idle"
  /\ trace = <<>>
  /\ feeResp = NoFee
  /\ amt = 0
  /\ result = Pending
  /\ at = 0
  /\ prev = NoPrev
  /\ now = 0

\* EstimateCall without the route check: calculateBridgeRate runs for every request.
EstimateCall_NoSupportCheck ==
  /\ op = "idle"
  /\ \E r \in EstimateRequests :
       /\ req' = r
       /\ pc' = "checked"
       /\ result' = Pending
  /\ op' = "estimate"
  /\ at' = now
  /\ trace' = <<Ev("swapSupported", 0)>>
  /\ UNCHANGED <<chainId, requiredConfirmations, calls, exec, feeResp, amt, prev, now>>

\* estimateBridgeTokenOutput up to the settlement of checkSwapSupported.
EstimateCall ==
  /\ op = "idle"
  /\ \E r \in EstimateRequests :
       /\ req' = r
       /\ IF swapSupported(chainId, r)[1]
            THEN /\ pc' = "checked"
                 /\ result' = Pending
            ELSE /\ pc' = "done"
                 /\ result' = Rejected(swapSupported(chainId, r)[2])
  /\ op' = "estimate"
  /\ at' = now
  /\ trace' = <<Ev("swapSupported", 0)>>
  /\ UNCHANGED <<chainId, requiredConfirmations, calls, exec, feeResp, amt, prev, now>>

\* calculateBridgeRate up to its first await: the token arguments, the fee request
\* and the origin-side switch.
CalculateBridgeRate ==
  /\ op = "estimate" /\ pc = "checked"
  /\ LET ta == makeBridgeTokenArgs(chainId, req)
         resolve == Ev("makeBridgeTokenArgs", 0)
         feeCall == Ev("calculateSwapFee", req.amountFrom)
     IN  IF ta.threw
           THEN /\ trace' = Append(trace, resolve)
                /\ result' = Rejected("TypeError")
                /\ pc' = "done"
                /\ UNCHANGED <<feeResp, amt>>
           ELSE LET oc == originCase(chainId, req, ta)
                    originCall ==
                      Query("origin", oc, req.amountFrom,
                            IF oc = "calculateSwapL2Zap"
                              THEN <<ta.tokenIndexFrom, 0>> ELSE <<>>)
                IN  /\ feeResp' = [st |-> "pending", fee |-> 0]
                    /\ result' = Pending
                    /\ IF oc = "zero"
                         THEN /\ amt' = 0
                              /\ pc' = "awaitFee"
                              /\ trace' = trace \o <<resolve, feeCall>>
                       ELSE IF oc = "pass"
                         THEN /\ amt' = req.amountFrom
                              /\ pc' = "awaitFee"
                              /\ trace' = trace \o <<resolve, feeCall>>
                       ELSE /\ amt' = 0
                            /\ pc' = "awaitOrigin"
                            /\ trace' = trace \o <<resolve, feeCall, originCall>>
  /\ UNCHANGED <<chainId, requiredConfirmations, calls, exec, op, req, at, prev, now>>

\* The origin-side query (calculateTokenAmount or calculateSwapL2Zap) answers.
OriginResponds ==
  /\ op = "estimate" /\ pc = "awaitOrigin"
  /\ \E v \in 0..MaxAmount : amt' = v
  /\ pc' = "awaitFee"
  /\ UNCHANGED <<chainId, requiredConfirmations, calls, exec, op, req, trace, feeResp, result, at, prev, now>>

\* The origin-side query fails: the awaiting calculateBridgeRate rejects.
OriginFails ==
  /\ op = "estimate" /\ pc = "awaitOrigin"
  /\ result' = Rejected("origin query failed")
  /\ pc' = "done"
  /\ UNCHANGED <<chainId, requiredConfirmations, calls, exec, op, req, trace, feeResp, amt, at, prev, now>>

\* The fee oracle answers; the response may arrive while the origin query is out.
FeeResponds ==
  /\ op = "estimate" /\ pc \in {"awaitOrigin", "awaitFee"}
  /\ feeResp.st = "pending"
  /\ \E f \in 0..MaxFee : feeResp' = [st |-> "ok", fee |-> f]
  /\ UNCHANGED <<chainId, requiredConfirmations, calls, exec, op, req, pc, trace, amt, result, at, prev, now>>

\* The fee-oracle query fails.
FeeFails ==
  /\ op = "estimate" /\ pc \in {"awaitOrigin", "awaitFee"}
  /\ feeResp.st = "pending"
  /\ feeResp' = [st |-> "failed", fee |-> 0]
  /\ UNCHANGED <<chainId, requiredConfirmations, calls, exec, op, req, pc, trace, amt, result, at, prev, now>>

Estimate(amountToReceive, bridgeFee) ==
  [null |-> FALSE, amountToReceive |-> amountToReceive, bridgeFee |-> bridgeFee]
Null == [null |-> TRUE]

\* AwaitFee without the await: the destination side is computed as soon as the origin
\* amount is there, with a fee of 0 while the fee request is still pending.
AwaitFee_NoAwait ==
  /\ op = "estimate" /\ pc = "awaitFee"
  /\ IF feeResp.st = "failed"
       THEN /\ result' = Resolved(Null)
            /\ pc' = "done"
            /\ UNCHANGED <<amt, trace>>
       ELSE LET ta == makeBridgeTokenArgs(chainId, req)
                a == subBigNumSafe(amt, feeResp.fee)
                dc == destCase(chainId, req, ta, a)
            IN  /\ amt' = a
                /\ IF dc = "zero"
                     THEN /\ result' = Resolved(Estimate(0, feeResp.fee))
                          /\ pc' = "done"
                          /\ UNCHANGED trace
                   ELSE IF dc = "pass"
                     THEN /\ result' = Resolved(Estimate(a, feeResp.fee))
                          /\ pc' = "done"
                          /\ UNCHANGED trace
                   ELSE /\ result' = Pending
                        /\ pc' = "awaitDest"
                        /\ trace' =
                             Append(trace,
                               Query("dest", dc, a,
                                     IF dc = "calculateSwapL2Zap"
                                       THEN <<0, ta.tokenIndexTo>>
                                       ELSE <<ta.tokenIndexTo>>))
  /\ UNCHANGED <<chainId, requiredConfirmations, calls, exec, op, req, feeResp, at, prev, now>>

\* calculateBridgeRate from `await bridgeFeeRequest` to its next await or its return.
AwaitFee ==
  /\ op = "estimate" /\ pc = "awaitFee"
  /\ feeResp.st \in {"ok", "failed"}
  /\ IF feeResp.st = "failed"
       THEN /\ result' = Resolved(Null)
            /\ pc' = "done"
            /\ UNCHANGED <<amt, trace>>
       ELSE LET ta == makeBridgeTokenArgs(chainId, req)
                a == subBigNumSafe(amt, feeResp.fee)
                dc == destCase(chainId, req, ta, a)
            IN  /\ amt' = a
                /\ IF dc = "zero"
                     THEN /\ result' = Resolved(Estimate(0, feeResp.fee))
                          /\ pc' = "done"
                          /\ UNCHANGED trace
                   ELSE IF dc = "pass"
                     THEN /\ result' = Resolved(Estimate(a, feeResp.fee))
                          /\ pc' = "done"
                          /\ UNCHANGED trace
                   ELSE /\ result' = Pending
                        /\ pc' = "awaitDest"
                        /\ trace' =
                             Append(trace,
                               Query("dest", dc, a,
                                     IF dc = "calculateSwapL2Zap"
                                       THEN <<0, ta.tokenIndexTo>>
                                       ELSE <<ta.tokenIndexTo>>))
  /\ UNCHANGED <<chainId, requiredConfirmations, calls, exec, op, req, feeResp, at, prev, now>>

\* The destination-side query answers: calculateBridgeRate returns.
DestResponds ==
  /\ op = "estimate" /\ pc = "awaitDest"
  /\ \E v \in 0..MaxAmount : result' = Resolved(Estimate(v, feeResp.fee))
  /\ pc' = "done"
  /\ UNCHANGED <<chainId, requiredConfirmations, calls, exec, op, req, trace, feeResp, amt, at, prev, now>>

\* The destination-side query fails.
DestFails ==
  /\ op = "estimate" /\ pc = "awaitDest"
  /\ result' = Rejected("destination query failed")
  /\ pc' = "done"
  /\ UNCHANGED <<chainId, requiredConfirmations, calls, exec, op, req, trace, feeResp, amt, at, prev, now>>

\* makeTokenArgs on one pool-token list of the registry: the index it resolves for a
\* token.
ResolveIndex ==
  /\ op = "idle"
  /\ \E toks \in PoolLists, t \in PoolListTokens :
       /\ trace' = <<[kind |-> "makeTokenArgs", toks |-> toks, token |-> t]>>
       /\ result' = Resolved(findIndex(toks, t))
  /\ op' = "resolve"
  /\ req' = NoRequest
  /\ at' = now
  /\ pc' = "done"
  /\ UNCHANGED <<chainId, requiredConfirmations, calls, exec, feeResp, amt, prev, now>>

\* A call of the exported getRequiredConfirmationsForBridge.
GetRequiredConfirmations ==
  /\ op = "idle"
  /\ \E network \in ConfirmationChains :
       /\ trace' = <<[kind |-> "getRequiredConfirmationsForBridge", network |-> network]>>
       /\ result' = Resolved(getRequiredConfirmationsForBridge(network))
  /\ op' = "confirmations"
  /\ req' = NoRequest
  /\ at' = now
  /\ pc' = "done"
  /\ UNCHANGED <<chainId, requiredConfirmations, calls, exec, feeResp, amt, prev, now>>

\* buildBridgeTokenTransaction: the call runs to its returned promise.
BuildCall ==
  /\ op = "idle"
  /\ \E r \in BuildRequests :
       LET out == buildBridgeTokenTransaction(chainId, r, now)
       IN  /\ req' = r
           /\ trace' = out.trace
           /\ result' = out.result
  /\ op' = "build"
  /\ at' = now
  /\ pc' = "done"
  /\ UNCHANGED <<chainId, requiredConfirmations, calls, exec, feeResp, amt, prev, now>>

\* The caller repeats a settled build call with the identical request.
BuildAgain ==
  /\ op = "build" /\ pc = "done" /\ prev = NoPrev
  /\ prev' = [status |-> "kept", result |-> result, at |-> at]
  /\ at' = now
  /\ LET out == buildBridgeTokenTransaction(chainId, req, now)
     IN  /\ trace' = out.trace
         /\ result' = out.result
  /\ UNCHANGED <<chainId, requiredConfirmations, calls, exec, op, req, pc, feeResp, amt, now>>

\* The caller takes the settled result; the facade is idle again.
Return ==
  /\ pc = "done"
  /\ op' = "idle"
  /\ req' = NoRequest
  /\ pc' = "idle"
  /\ trace' = <<>>
  /\ feeResp' = NoFee
  /\ amt' = 0
  /\ result' = Pending
  /\ at' = 0
  /\ prev' = NoPrev
  /\ UNCHANGED <<chainId, requiredConfirmations, calls, exec, now>>

\* Time passes.
Tick ==
  /\ now < MaxClock
  /\ now' = now + 1
  /\ UNCHANGED <<chainId, requiredConfirmations, calls, exec, op, req, pc, trace, feeResp, amt, result, at, prev>>

Next ==
  \/ EstimateCall
  \/ CalculateBridgeRate
  \/ OriginResponds
  \/ OriginFails
  \/ FeeResponds
  \/ FeeFails
  \/ AwaitFee
  \/ DestResponds
  \/ DestFails
  \/ ResolveIndex
  \/ GetRequiredConfirmations
  \/ BuildCall
  \/ BuildAgain
  \/ Return
  \/ Tick

Spec == Init /\ [][Next]_vars

\* ------------------------------------------------------- concurrent calls
\* The facade's fields and the variables of the single caller.
facade == <<chainId, requiredConfirmations>>
single == <<op, req, pc, trace, feeResp, amt, result, at, prev, now>>

\* estimateBridgeTokenOutput as one uninterrupted run: the promise it settles to, given
\* the responses of the origin-side query, the fee oracle and the destination-side query.
estimateBridgeTokenOutput(c, r, origin, fee, dest) ==
  IF ~swapSupported(c, r)[1] THEN Rejected(swapSupported(c, r)[2])
  ELSE
    LET ta == makeBridgeTokenArgs(c, r)
    IN  IF ta.threw THEN Rejected("TypeError")
        ELSE
          LET oc == originCase(c, r, ta)
              from == IF oc = "zero" THEN 0
                      ELSE IF oc = "pass" THEN r.amountFrom
                      ELSE origin.v
          IN  IF oc \notin {"zero", "pass"} /\ origin.st = "failed"
                THEN Rejected("origin query failed")
              ELSE IF fee.st = "failed" THEN Resolved(Null)
              ELSE
                LET a == subBigNumSafe(from, fee.fee)
                    dc == destCase(c, r, ta, a)
                IN  IF dc = "zero" THEN Resolved(Estimate(0, fee.fee))
                    ELSE IF dc = "pass" THEN Resolved(Estimate(a, fee.fee))
                    ELSE IF dest.st = "failed"
                      THEN Rejected("destination query failed")
                    ELSE Resolved(Estimate(dest.v, fee.fee))

\* The membership lists a build call on chain c makes for its own request.
easyLists(c, r) ==
  LET ta == makeBridgeTokenArgs(c, r)
      args == [r EXCEPT !.tokenFrom = ta.tokenFrom, !.tokenTo = ta.tokenTo]
  IN  IF ta.threw THEN NoLists
      ELSE IF c = "ETH" THEN easyListsETH(args)
      ELSE easyListsL2(c, args)

\* A caller starts an estimate: checkSwapSupported settles.
ConcEstimateCall ==
  \E k \in Callers :
    /\ calls[k].op = "idle"
    /\ \E r \in ConcurrentRequests :
         calls' = [calls EXCEPT ![k] =
           [IdleCall EXCEPT
              !.op = "estimate", !.req = r,
              !.pc = IF swapSupported(chainId, r)[1] THEN "checked" ELSE "done",
              !.result = IF swapSupported(chainId, r)[1]
                           THEN Pending
                           ELSE Rejected(swapSupported(chainId, r)[2])]]
    /\ UNCHANGED <<facade, single, exec>>

\* calculateBridgeRate of one call up to its first await.
ConcCalculateBridgeRate ==
  \E k \in Callers :
    /\ calls[k].op = "estimate" /\ calls[k].pc = "checked"
    /\ LET r == calls[k].req
           ta == makeBridgeTokenArgs(chainId, r)
       IN  IF ta.threw
             THEN calls' = [calls EXCEPT ![k].result = Rejected("TypeError"),
                                         ![k].pc = "done"]
             ELSE LET oc == originCase(chainId, r, ta)
                  IN  calls' = [calls EXCEPT
                        ![k].fee = [st |-> "pending", fee |-> 0],
                        ![k].amt = IF oc = "pass" THEN r.amountFrom ELSE 0,
                        ![k].pc = IF oc \in {"zero", "pass"}
                                    THEN "awaitFee" ELSE "awaitOrigin"]
    /\ UNCHANGED <<facade, single, exec>>

\* The origin-side query of one call answers or fails.
ConcOriginResponds ==
  \E k \in Callers :
    /\ calls[k].op = "estimate" /\ calls[k].pc = "awaitOrigin"
    /\ \/ \E v \in 0..MaxAmount :
            calls' = [calls EXCEPT ![k].origin = [st |-> "ok", v |-> v],
                                   ![k].amt = v,
                                   ![k].pc = "awaitFee"]
       \/ calls' = [calls EXCEPT ![k].origin = [st |-> "failed", v |-> 0],
                                 ![k].result = Rejected("origin query failed"),
                                 ![k].pc = "done"]
    /\ UNCHANGED <<facade, single, exec>>

\* The fee oracle answers one call's request, or the request fails.
ConcFeeResponds ==
  \E k \in Callers :
    /\ calls[k].op = "estimate" /\ calls[k].pc \in {"awaitOrigin", "awaitFee"}
    /\ calls[k].fee.st = "pending"
    /\ \/ \E f \in 0..MaxFee :
            calls' = [calls EXCEPT ![k].fee = [st |-> "ok", fee |-> f]]
       \/ calls' = [calls EXCEPT ![k].fee = [st |-> "failed", fee |-> 0]]
    /\ UNCHANGED <<facade, single, exec>>

\* calculateBridgeRate of one call from `await bridgeFeeRequest` to its next await or
\* its return.
ConcAwaitFee ==
  \E k \in Callers :
    /\ calls[k].op = "estimate" /\ calls[k].pc = "awaitFee"
    /\ calls[k].fee.st \in {"ok", "failed"}
    /\ IF calls[k].fee.st = "failed"
         THEN calls' = [calls EXCEPT ![k].result = Resolved(Null), ![k].pc = "done"]
         ELSE LET r == calls[k].req
                  ta == makeBridgeTokenArgs(chainId, r)
                  fee == calls[k].fee.fee
                  a == subBigNumSafe(calls[k].amt, fee)
                  dc == destCase(chainId, r, ta, a)
              IN  calls' = [calls EXCEPT
                    ![k].amt = a,
                    ![k].result = IF dc = "zero" THEN Resolved(Estimate(0, fee))
                                  ELSE IF dc = "pass" THEN Resolved(Estimate(a, fee))
                                  ELSE Pending,
                    ![k].pc = IF dc \in {"zero", "pass"} THEN "done" ELSE "awaitDest"]
    /\ UNCHANGED <<facade, single, exec>>

\* The destination-side query of one call answers or fails.
ConcDestResponds ==
  \E k \in Callers :
    /\ calls[k].op = "estimate" /\ calls[k].pc = "awaitDest"
    /\ \/ \E v \in 0..MaxAmount :
            calls' = [calls EXCEPT
              ![k].dest = [st |-> "ok", v |-> v],
              ![k].result = Resolved(Estimate(v, calls[k].fee.fee)),
              ![k].pc = "done"]
       \/ calls' = [calls EXCEPT
            ![k].dest = [st |-> "failed", v |-> 0],
            ![k].result = Rejected("destination query failed"),
            ![k].pc = "done"]
    /\ UNCHANGED <<facade, single, exec>>

\* ConcBuildCall with the membership lists kept on the facade: the NUSD entry pushed
\* for another call in flight is still in the list this call checks.
ConcBuildCall_SharedLists ==
  \E k \in Callers :
    /\ calls[k].op = "idle"
    /\ \E r \in ConcurrentRequests :
         LET leaked == \E j \in Callers \ {k} :
                         calls[j].op # "idle" /\ calls[j].req.tokenFrom = "NUSD"
             seen == IF leaked THEN [r EXCEPT !.tokenFrom = "NUSD"] ELSE r
         IN  calls' = [calls EXCEPT ![k] =
               [IdleCall EXCEPT
                  !.op = "build", !.req = r, !.pc = "done",
                  !.lists = easyLists(chainId, seen),
                  !.result = buildBridgeTokenTransaction(chainId, seen, now).result]]
    /\ UNCHANGED <<facade, single, exec>>

\* A caller's buildBridgeTokenTransaction: it runs to its returned promise without
\* suspending; its membership lists are locals of the call.
ConcBuildCall ==
  \E k \in Callers :
    /\ calls[k].op = "idle"
    /\ \E r \in ConcurrentRequests :
         calls' = [calls EXCEPT ![k] =
           [IdleCall EXCEPT
              !.op = "build", !.req = r, !.pc = "done",
              !.lists = easyLists(chainId, r),
              !.result = buildBridgeTokenTransaction(chainId, r, now).result]]
    /\ UNCHANGED <<facade, single, exec>>

\* A caller takes its settled result.
ConcReturn ==
  \E k \in Callers :
    /\ calls[k].pc = "done"
    /\ calls' = [calls EXCEPT ![k] = IdleCall]
    /\ UNCHANGED <<facade, single, exec>>

NextConcurrent ==
  \/ ConcEstimateCall
  \/ ConcCalculateBridgeRate
  \/ ConcOriginResponds
  \/ ConcFeeResponds
  \/ ConcAwaitFee
  \/ ConcDestResponds
  \/ ConcBuildCall
  \/ ConcReturn

SpecConcurrent == Init /\ [][NextConcurrent]_vars

\* ---------------------------------------------------------------- execute
\* checkCanBridge without `return hasBalanceRes`: a sufficient allowance is enough.
checkCanBridge_NoBalance(amount, balance, allowance) ==
  IF allowance.st = "pending" THEN Pending
  ELSE IF allowance.st = "failed" THEN Rejected("allowance query failed")
  ELSE IF allowance.v < amount
    THEN Resolved(<<FALSE, "Spend allowance of Bridge too low">>)
  ELSE Resolved(<<TRUE, "null">>)

\* SynapseBridge.checkCanBridge over the answers of its two queries: the promise it
\* returns. checkNeedsApprove: needsApprove = allowance.lt(amount); checkHasBalance:
\* hasBalance = balance.gte(amount). The allowance is looked at first, and the balance
\* only when the allowance suffices.
checkCanBridge(amount, balance, allowance) ==
  IF allowance.st = "pending" THEN Pending
  ELSE IF allowance.st = "failed" THEN Rejected("allowance query failed")
  ELSE IF allowance.v < amount
    THEN Resolved(<<FALSE, "Spend allowance of Bridge too low">>)
  ELSE IF balance.st = "pending" THEN Pending
  ELSE IF balance.st = "failed" THEN Rejected("balance query failed")
  ELSE IF balance.v < amount THEN Resolved(<<FALSE, "Balance of token is too low">>)
  ELSE Resolved(<<TRUE, "null">>)

Call(kind) == [kind |-> kind]

\* executeBridgeTokenTransaction up to `await signer.getAddress()`: checkSwapSupported
\* settles first, and a refused route rejects there.
ExecuteCall ==
  /\ exec.pc = "idle"
  /\ \E r \in ExecuteRequests :
       exec' =
         IF swapSupported(chainId, r)[1]
           THEN [IdleExec EXCEPT !.args = r, !.given = r, !.pc = "awaitAddress",
                                 !.trace = <<Call("swapSupported"), Call("getAddress")>>]
           ELSE [IdleExec EXCEPT !.args = r, !.given = r, !.pc = "done",
                                 !.trace = <<Call("swapSupported")>>,
                                 !.result = Rejected(swapSupported(chainId, r)[2])]
  /\ UNCHANGED <<facade, calls, single>>

\* The signer answers: args.addressTo = addressTo ?? signerAddress, then checkCanBridge
\* issues the balance query (checkHasBalance) and the allowance query
\* (checkNeedsApprove).
AddressResponds ==
  /\ exec.pc = "awaitAddress"
  /\ exec' = [exec EXCEPT
                !.args.addressTo = IF @ = "absent" THEN SignerAddress ELSE @,
                !.balance = [st |-> "pending", v |-> 0],
                !.allowance = [st |-> "pending", v |-> 0],
                !.trace = @ \o <<Call("balanceOf"), Call("allowanceOf")>>,
                !.pc = "awaitChecks"]
  /\ UNCHANGED <<facade, calls, single>>

\* signer.getAddress() fails: the await throws and the call rejects.
AddressFails ==
  /\ exec.pc = "awaitAddress"
  /\ exec' = [exec EXCEPT !.pc = "done", !.result = Rejected("getAddress failed")]
  /\ UNCHANGED <<facade, calls, single>>

\* ERC20.balanceOf answers.
BalanceResponds ==
  /\ exec.pc = "awaitChecks" /\ exec.balance.st = "pending"
  /\ \E v \in 0..MaxAmount : exec' = [exec EXCEPT !.balance = [st |-> "ok", v |-> v]]
  /\ UNCHANGED <<facade, calls, single>>

BalanceFails ==
  /\ exec.pc = "awaitChecks" /\ exec.balance.st = "pending"
  /\ exec' = [exec EXCEPT !.balance = [st |-> "failed", v |-> 0]]
  /\ UNCHANGED <<facade, calls, single>>

\* ERC20.allowanceOf answers.
AllowanceResponds ==
  /\ exec.pc = "awaitChecks" /\ exec.allowance.st = "pending"
  /\ \E v \in 0..MaxAmount : exec' = [exec EXCEPT !.allowance = [st |-> "ok", v |-> v]]
  /\ UNCHANGED <<facade, calls, single>>

AllowanceFails ==
  /\ exec.pc = "awaitChecks" /\ exec.allowance.st = "pending"
  /\ exec' = [exec EXCEPT !.allowance = [st |-> "failed", v |-> 0]]
  /\ UNCHANGED <<facade, calls, single>>

\* The continuation of checkCanBridge in executeBridgeTokenTransaction: reject when the
\* caller cannot bridge, build the transaction otherwise.
CanBridge ==
  /\ exec.pc = "awaitChecks"
  /\ LET res == checkCanBridge(exec.args.amountFrom, exec.balance, exec.allowance)
     IN  /\ res # Pending
         /\ IF res.status = "rejected"
              THEN exec' = [exec EXCEPT !.pc = "done", !.result = res]
            ELSE IF ~res.value[1]
              THEN exec' = [exec EXCEPT !.pc = "done", !.result = Rejected(res.value[2])]
            ELSE LET out == buildBridgeTokenTransaction(chainId, exec.args, now)
                 IN  exec' = [exec EXCEPT !.pc = "built",
                                          !.txnProm = out.result,
                                          !.trace = @ \o <<Call("buildBridgeTokenTransaction")>>]
  /\ UNCHANGED <<facade, calls, single>>

\* executePopulatedTransaction(txnProm, signer): the populated transaction is awaited
\* and, when there is one, sent through the signer.
ExecutePopulatedTransaction ==
  /\ exec.pc = "built"
  /\ IF exec.txnProm.status = "rejected"
       THEN exec' = [exec EXCEPT !.pc = "done", !.result = exec.txnProm]
       ELSE exec' = [exec EXCEPT !.pc = "awaitSend",
                                 !.trace = Append(@, Call("sendTransaction"))]
  /\ UNCHANGED <<facade, calls, single>>

\* signer.sendTransaction answers with the submitted transaction.
SendResponds ==
  /\ exec.pc = "awaitSend"
  /\ exec' = [exec EXCEPT !.pc = "done", !.result = Resolved(exec.txnProm.value)]
  /\ UNCHANGED <<facade, calls, single>>

SendFails ==
  /\ exec.pc = "awaitSend"
  /\ exec' = [exec EXCEPT !.pc = "done", !.result = Rejected("sendTransaction failed")]
  /\ UNCHANGED <<facade, calls, single>>

\* The caller takes the settled result of the execute call.
ExecuteReturn ==
  /\ exec.pc = "done"
  /\ exec' = IdleExec
  /\ UNCHANGED <<facade, calls, single>>

NextExecute ==
  \/ ExecuteCall
  \/ AddressResponds
  \/ AddressFails
  \/ BalanceResponds
  \/ BalanceFails
  \/ AllowanceResponds
  \/ AllowanceFails
  \/ CanBridge
  \/ ExecutePopulatedTransaction
  \/ SendResponds
  \/ SendFails
  \/ ExecuteReturn
  \/ Tick

SpecExecute == Init /\ [][NextExecute]_vars

\* ----------------------------------------------------------------- claims
Supported == swapSupported(chainId, req)[1]
EmptyAddress == req.addressTo \in {"absent", ""}
Populated == {i \in DOMAIN trace : trace[i].kind = "populateTransaction"}

\* C1: an estimate of a request that swapSupported refuses rejects with the reason,
\* and no fee, liquidity-math or swap-math query (no collaborator call at all) is
\* issued in that call.
C1_UnsupportedEstimateRejectsFirst ==
  (op = "estimate" /\ ~Supported) =>
    /\ pc = "done"
    /\ result = Rejected(swapSupported(chainId, req)[2])
    /\ Kinds(trace) \cap CollaboratorCalls = {}
    /\ feeResp = NoFee

C1_Witness ==
  /\ op = "estimate" /\ ~Supported
  /\ pc = "done" /\ result.status = "rejected"
  /\ req.amountFrom > 0

\* C2: a build of a request that swapSupported refuses fails with the route-unsupported
\* reason and populates no contract call.
C2_UnsupportedBuildRejects ==
  (op = "build" /\ ~Supported) =>
    /\ result = Rejected(swapSupported(chainId, req)[2])
    /\ Populated = {}

\* C3: a build whose addressTo is absent or empty fails with the empty-address error
\* before anything else is computed: no pool-index resolution comes first and no other
\* error is reported.
C3_EmptyAddressFailsFirst ==
  (op = "build" /\ EmptyAddress) =>
    /\ result = Rejected("addressTo cannot be empty string or undefined")
    /\ "makeBridgeTokenArgs" \notin Kinds(trace)
    /\ Populated = {}

\* C4: an estimate whose fee-oracle query failed ends rejected, never resolved with a
\* null result.
C4_FeeFailureRejects ==
  (op = "estimate" /\ pc = "done" /\ feeResp.st = "failed") =>
    result.status = "rejected"

\* C5: a supported estimate with amountFrom = 0 issues no swap-math or liquidity-math
\* query on either side, and with the fee returned it resolves to amountToReceive = 0.
C5_ZeroAmountEstimate ==
  (op = "estimate" /\ Supported /\ req.amountFrom = 0) =>
    /\ Kinds(trace) \cap (LiquidityQueries \cup SwapQueries) = {}
    /\ pc \notin {"awaitOrigin", "awaitDest"}
    /\ (pc = "done" /\ feeResp.st = "ok") =>
         result = Resolved(Estimate(0, feeResp.fee))

C5_Witness ==
  /\ op = "estimate" /\ Supported /\ req.amountFrom = 0
  /\ pc = "done" /\ feeResp.st = "ok" /\ feeResp.fee > 0
  /\ result.status = "resolved" /\ result.value.amountToReceive = 0
  /\ "calculateSwapFee" \in Kinds(trace)

MintBurnOrWrapped(t) == isMintBurnToken(t) \/ isWrappedToken(t)

\* C6: a supported estimate between two mint/burn or wrapped tokens issues no pool,
\* swap-math or liquidity-math query, and with the fee returned it resolves to
\* amountToReceive = max(amountFrom - bridgeFee, 0).
C6_PassThroughEstimate ==
  (op = "estimate" /\ Supported
     /\ MintBurnOrWrapped(req.tokenFrom) /\ MintBurnOrWrapped(req.tokenTo)) =>
    /\ Kinds(trace) \cap (LiquidityQueries \cup SwapQueries) = {}
    /\ pc \notin {"awaitOrigin", "awaitDest"}
    /\ (pc = "done" /\ feeResp.st = "ok") =>
         /\ result.status = "resolved"
         /\ ~result.value.null
         /\ result.value.bridgeFee = feeResp.fee
         /\ result.value.amountToReceive =
              (IF req.amountFrom - feeResp.fee >= 0
                 THEN req.amountFrom - feeResp.fee ELSE 0)

C6_Witness ==
  /\ op = "estimate" /\ Supported
  /\ MintBurnOrWrapped(req.tokenFrom) /\ MintBurnOrWrapped(req.tokenTo)
  /\ pc = "done" /\ feeResp.st = "ok"
  /\ feeResp.fee = 1 /\ req.amountFrom = 2
  /\ result.status = "resolved" /\ result.value.amountToReceive = 1

\* The build call reached shape selection: the address check and the pool lookup passed.
TokenArgs == makeBridgeTokenArgs(chainId, req)
Selecting == op = "build" /\ ~EmptyAddress /\ ~TokenArgs.threw

\* The request as the builders see it: args = {...args, tokenFrom, tokenTo}.
Args == [req EXCEPT !.tokenFrom = TokenArgs.tokenFrom, !.tokenTo = TokenArgs.tokenTo]

ShapeTags ==
  {"deposit", "redeem", "depositETH", "zapAndDeposit", "depositETHAndSwap",
   "zapAndDepositAndSwap", "swapAndRedeem", "swapETHAndRedeem", "redeemAndRemove",
   "swapAndRedeemAndRemove", "redeemAndSwap", "swapAndRedeemAndSwap",
   "swapETHAndRedeemAndSwap"}

\* C8: with a non-empty addressTo, on the canonical and on every peripheral origin
\* chain, shape selection populates exactly one call and returns it: never none (no
\* path falls through) and never two.
C8_ExactlyOneShape ==
  Selecting =>
    /\ Cardinality(Populated) = 1
    /\ result.status = "resolved"
    /\ \A i \in Populated : result.value = trace[i].shape
    /\ result.value.tag \in ShapeTags

C8_Witness ==
  /\ Selecting /\ chainId = "ETH"
  /\ req.tokenFrom = "NUSD" /\ req.tokenTo = "NUSD"
  /\ result.status = "resolved" /\ result.value.tag = "deposit"
  /\ Cardinality(Populated) = 1

\* C9: with tokenTo = NUSD the direct single-step shape (deposit on the canonical
\* origin chain, redeem on a peripheral one; four parameters, no swap leg, no slippage
\* value) is selected if and only if tokenFrom is NUSD; otherwise the shape is the
\* one-swap-leg composite, zapAndDeposit on the canonical chain and swapAndRedeem on a
\* peripheral chain.
C9_NusdSelfRoute ==
  (Selecting /\ req.tokenTo = "NUSD") =>
    /\ result.status = "resolved"
    /\ IF req.tokenFrom = "NUSD"
         THEN result.value =
                Shape("zapBridge", IF chainId = "ETH" THEN "deposit" ELSE "redeem",
                      <<req.addressTo, req.chainIdTo, address("NUSD", chainId),
                        req.amountFrom>>, <<>>)
         ELSE /\ result.value.tag =
                   (IF chainId = "ETH" THEN "zapAndDeposit" ELSE "swapAndRedeem")
              /\ result.value.params[3] = address("NUSD", chainId)
              /\ result.value.value = <<>>

C9_Witness ==
  /\ Selecting /\ chainId # "ETH"
  /\ req.tokenTo = "NUSD" /\ req.tokenFrom = "NUSD"
  /\ result.status = "resolved" /\ result.value.tag = "redeem"

\* The destination token is directly reachable: it is in one of the three direct-route
\* membership lists of the bound chain.
DirectlyReachable ==
  LET lists == IF chainId = "ETH" THEN easyListsETH(Args) ELSE easyListsL2(chainId, Args)
  IN  \/ includes(lists.easyRedeems, Args.tokenTo)
      \/ includes(lists.easyDeposits, Args.tokenTo)
      \/ includes(lists.easyDepositETH, Args.tokenTo)

\* What C10 says of the selected shape: the direct redeem of NETH for tokenFrom = NETH,
\* swapAndRedeem to NETH at pool index 0 for any other ETH-like tokenFrom.
L2EthToCanonicalShape ==
  /\ result.status = "resolved"
  /\ Args.tokenFrom = "NETH" =>
       result.value = Shape("zapBridge", "redeem",
                            <<req.addressTo, "ETH", address("NETH", chainId),
                              req.amountFrom>>, <<>>)
  /\ (Args.tokenFrom # "NETH" /\ isETHLikeToken(Args.tokenFrom)) =>
       /\ result.value.tag = "swapAndRedeem"
       /\ result.value.params[3] = address("NETH", chainId)
       /\ result.value.params[4] = TokenArgs.tokenIndexFrom
       /\ result.value.params[5] = 0
       /\ result.value.params[6] = req.amountFrom
       /\ result.value.value = <<>>

L2EthToCanonical ==
  /\ Selecting /\ chainId # "ETH" /\ isL2ETHChain(chainId)
  /\ req.chainIdTo = "ETH" /\ ~DirectlyReachable

DeadlinePositions(tag) ==
  CASE tag \in {"zapAndDeposit"} -> {6}
    [] tag \in {"depositETHAndSwap", "redeemAndRemove"} -> {7}
    [] tag \in {"zapAndDepositAndSwap"} -> {6, 10}
    [] tag \in {"swapAndRedeem", "swapETHAndRedeem", "redeemAndSwap"} -> {8}
    [] tag \in {"swapAndRedeemAndRemove"} -> {8, 11}
    [] tag \in {"swapAndRedeemAndSwap", "swapETHAndRedeemAndSwap"} -> {8, 12}
    [] OTHER -> {}

Repeated == op = "build" /\ prev.status = "kept"

IndexPositions(tag) ==
  CASE tag \in {"depositETHAndSwap", "redeemAndRemove"} -> {5}
    [] tag \in {"zapAndDepositAndSwap"} -> {8}
    [] tag \in {"redeemAndSwap"} -> {6}
    [] tag \in {"swapAndRedeem", "swapETHAndRedeem"} -> {4}
    [] tag \in {"swapAndRedeemAndRemove"} -> {4, 9}
    [] tag \in {"swapAndRedeemAndSwap", "swapETHAndRedeemAndSwap"} -> {4, 10}
    [] OTHER -> {}

\* The call resolved its pool indices and one of the two lists had no matching entry
\* (a build with an empty addressTo is left to the address gate).
Resolved_NotFound ==
  /\ "makeBridgeTokenArgs" \in Kinds(trace)
  /\ ~(op = "build" /\ EmptyAddress)
  /\ ~TokenArgs.threw
  /\ (TokenArgs.tokenIndexFrom = -1 \/ TokenArgs.tokenIndexTo = -1)

\* C11: a pool-index resolution that finds no matching entry fails the call with the
\* pool-index-not-found error; the no-match value -1 is never an index of an estimate
\* query and never an index parameter of a populated call.
C11_NotFoundFails ==
  /\ Resolved_NotFound => result = Rejected("pool index not found")
  /\ \A i \in DOMAIN trace :
       trace[i].kind \in LiquidityQueries \cup SwapQueries =>
         \A j \in DOMAIN trace[i].indices : trace[i].indices[j] # -1
  /\ \A i \in Populated :
       \A j \in IndexPositions(trace[i].shape.tag) : trace[i].shape.params[j] # -1

\* The peer a chain-specific alias stands for in a pool-token list.
IsAlias(t) == t = "WETH_E" \/ isWrappedToken(t)
Peer(t) == IF t = "WETH_E" THEN "AVWETH" ELSE underlyingToken(t)

\* C12: the index resolved for an alias (WETH_E, a wrapped token) is the position of its
\* peer (AVWETH, the underlying token) in the list: it equals the index resolved for the
\* peer itself, and it is not the no-match value when the peer is in the list.
C12_AliasResolvesToPeer ==
  (op = "resolve" /\ IsAlias(trace[1].token)) =>
    LET toks == trace[1].toks
        peer == Peer(trace[1].token)
        idx == result.value
    IN  /\ idx = findIndex(toks, peer)
        /\ peer \in Range(toks) => (idx >= 0 /\ toks[idx + 1] = peer)
        /\ peer \notin Range(toks) => idx = -1

C12_Witness ==
  /\ op = "resolve" /\ trace[1].token = "WAVAX"
  /\ Len(trace[1].toks) = 2 /\ trace[1].toks[2] = "AVAX"
  /\ result.value = 1

\* C13: getRequiredConfirmationsForBridge returns the positive table value for a chain
\* of the confirmation table (7 for the canonical chain) and -1 for a chain absent from
\* it; the facade's requiredConfirmations is that value for its bound chain, in every
\* state.
C13_RequiredConfirmations ==
  /\ chainId \in DOMAIN REQUIRED_CONFS
  /\ requiredConfirmations = REQUIRED_CONFS[chainId]
  /\ requiredConfirmations > 0
  /\ chainId = "ETH" => requiredConfirmations = 7
  /\ op = "confirmations" =>
       LET network == trace[1].network
       IN  /\ network \in DOMAIN REQUIRED_CONFS =>
                (result.value = REQUIRED_CONFS[network] /\ result.value > 0)
           /\ network = "ETH" => result.value = 7
           /\ network \notin DOMAIN REQUIRED_CONFS => result.value = -1

C13_Witness ==
  /\ op = "confirmations" /\ trace[1].network = "AURORA" /\ result.value = -1
  /\ chainId = "ARBITRUM" /\ requiredConfirmations = 40 /\ now > 0

\* What a call returns when it is the only call on the facade, given the responses
\* it received.
Alone(k) ==
  IF calls[k].op = "build"
    THEN buildBridgeTokenTransaction(chainId, calls[k].req, now).result
    ELSE estimateBridgeTokenOutput(chainId, calls[k].req, calls[k].origin,
                                   calls[k].fee, calls[k].dest)

NativeGasLike(t) == swapType(t) \in {"ETH", "AVAX", "MOVR"}

\* C15: on a peripheral origin chain, with the canonical chain as destination and a
\* destination token that is neither directly reachable nor NUSD nor GMX, the shape is
\* redeemAndRemove when tokenFrom is NUSD and swapAndRedeemAndRemove when tokenFrom is
\* any other token that is not native-gas-like.
C15_PeripheralToCanonical ==
  (Selecting /\ chainId # "ETH" /\ req.chainIdTo = "ETH"
     /\ ~DirectlyReachable /\ Args.tokenTo \notin {"NUSD", "GMX"}
     /\ ~NativeGasLike(Args.tokenFrom)) =>
    /\ result.status = "resolved"
    /\ result.value.tag =
         (IF Args.tokenFrom = "NUSD" THEN "redeemAndRemove" ELSE "swapAndRedeemAndRemove")

NativeValueTags ==
  {"depositETH", "depositETHAndSwap", "swapETHAndRedeem", "swapETHAndRedeemAndSwap"}

\* C16: for a supported request, a shape of a native-value variant carries the value
\* amountFrom and its origin token is of a native-gas category; a shape selected for
\* an origin token of any other category carries no native value.
C16_NativeValueOnlyForNativeLeg ==
  (Selecting /\ Supported /\ result.status = "resolved") =>
    /\ result.value.tag \in NativeValueTags =>
         /\ result.value.value = <<req.amountFrom>>
         /\ NativeGasLike(req.tokenFrom)
    /\ ~NativeGasLike(req.tokenFrom) => result.value.value = <<>>

\* The positions of the minimum-output thresholds in each call variant's parameter
\* tuple.
MinPositions(tag) ==
  CASE tag \in {"zapAndDeposit"} -> {5}
    [] tag \in {"depositETHAndSwap", "redeemAndRemove"} -> {6}
    [] tag \in {"zapAndDepositAndSwap"} -> {5, 9}
    [] tag \in {"redeemAndSwap", "swapAndRedeem", "swapETHAndRedeem"} -> {7}
    [] tag \in {"swapAndRedeemAndRemove"} -> {7, 10}
    [] tag \in {"swapAndRedeemAndSwap", "swapETHAndRedeemAndSwap"} -> {7, 11}
    [] OTHER -> {}

DirectTags == {"deposit", "redeem", "depositETH"}

\* The tolerance tiers of the thresholds of the shape the build call selected.
Tiers == {result.value.params[i].tier : i \in MinPositions(result.value.tag)}

\* A direct shape is (addressTo, chainIdTo, token address, amount), or, for depositETH,
\* (addressTo, chainIdTo, amount): it has no threshold and no deadline parameter.
DirectShapeBare ==
  /\ MinPositions(result.value.tag) = {}
  /\ DeadlinePositions(result.value.tag) = {}
  /\ result.value.params \in
       {makeEasyParams(req, chainId, t) : t \in AllTokens}
         \cup {depositETHParams(req)}
         \cup {<<req.addressTo, req.chainIdTo, wrapperAddress("GMX", chainId),
                 req.amountFrom>>}

OriginDeadlinePositions(tag) ==
  CASE tag \in {"zapAndDeposit", "zapAndDepositAndSwap"} -> {6}
    [] tag \in {"swapAndRedeem", "swapETHAndRedeem", "swapAndRedeemAndRemove",
                "swapAndRedeemAndSwap", "swapETHAndRedeemAndSwap"} -> {8}
    [] OTHER -> {}

DestDeadlinePositions(tag) ==
  CASE tag \in {"depositETHAndSwap", "redeemAndRemove"} -> {7}
    [] tag \in {"redeemAndSwap"} -> {8}
    [] tag \in {"zapAndDepositAndSwap"} -> {10}
    [] tag \in {"swapAndRedeemAndRemove"} -> {11}
    [] tag \in {"swapAndRedeemAndSwap", "swapETHAndRedeemAndSwap"} -> {12}
    [] OTHER -> {}

\* C18: in the selected shape every deadline of an origin-chain leg is the origin
\* deadline (transactionDeadline) and every deadline of a destination-chain leg is the
\* bridge deadline (bridgeTransactionDeadline).
C18_DeadlineByLeg ==
  (Selecting /\ result.status = "resolved") =>
    LET s == getSlippages(req.amountFrom, req.amountTo, at)
    IN  /\ \A i \in OriginDeadlinePositions(result.value.tag) :
             result.value.params[i] = s.transactionDeadline
        /\ \A i \in DestDeadlinePositions(result.value.tag) :
             result.value.params[i] = s.bridgeTransactionDeadline

\* The amount queries the estimate has issued on one side, by position in the trace.
Issued(side) ==
  {i \in DOMAIN trace :
     trace[i].kind \in LiquidityQueries \cup SwapQueries /\ trace[i].side = side}
FeeIssued == {i \in DOMAIN trace : trace[i].kind \in FeeQueries}

\* C19: the fee query is issued before the origin-side query and without waiting for
\* its answer; a destination-side query is issued only once the fee response and the
\* origin-side result are there, after both queries, and its input is the origin
\* amount less the fee, clamped at zero.
C19_EstimatePipelineOrder ==
  /\ [](op = "estimate" =>
          /\ pc = "awaitOrigin" => (Issued("origin") # {} /\ FeeIssued # {})
          /\ \A i \in Issued("origin") : \E j \in FeeIssued : j < i
          /\ \A i \in Issued("dest") :
               /\ feeResp.st = "ok"
               /\ pc \in {"awaitDest", "done"}
               /\ trace[i].amount = amt
               /\ \A j \in FeeIssued \cup Issued("origin") : j < i)
  /\ [][(op = "estimate" /\ Issued("dest") = {} /\ Issued("dest")' # {}) =>
          /\ pc = "awaitFee" /\ feeResp.st = "ok"
          /\ \A i \in Issued("dest")' :
               trace'[i].amount = subBigNumSafe(amt, feeResp.fee)]_vars

C19_Witness ==
  /\ op = "estimate" /\ pc = "awaitDest"
  /\ Issued("origin") # {} /\ Issued("dest") # {}
  /\ feeResp.st = "ok" /\ feeResp.fee = 1
  /\ \A i \in Issued("dest") : trace[i].amount = 1

\* C20: amountToReceive_from is never negative and, once the fee is subtracted, is the
\* origin amount less the fee clamped at zero; when the fee is at least the origin
\* amount the estimate returns amountToReceive = 0 without a destination-side query;
\* every returned estimate has amountToReceive >= 0.
C20_FeeClampedAtZero ==
  /\ [](op = "estimate" =>
          /\ amt >= 0
          /\ (result.status = "resolved" /\ ~result.value.null) =>
               result.value.amountToReceive >= 0)
  /\ [][(op = "estimate" /\ pc = "awaitFee" /\ pc' # pc /\ feeResp.st = "ok") =>
          /\ amt' = (IF amt - feeResp.fee > 0 THEN amt - feeResp.fee ELSE 0)
          /\ feeResp.fee >= amt =>
               /\ result' = Resolved(Estimate(0, feeResp.fee))
               /\ pc' = "done"
               /\ trace' = trace]_vars

C20_Witness ==
  /\ op = "estimate" /\ pc = "done"
  /\ Supported /\ ~TokenArgs.threw
  /\ originCase(chainId, req, TokenArgs) = "pass" /\ req.amountFrom = 1
  /\ feeResp.st = "ok" /\ feeResp.fee > req.amountFrom
  /\ result.status = "resolved" /\ result.value.amountToReceive = 0
  /\ Issued("dest") = {}
  /\ ~MintBurnOrWrapped(req.tokenTo)

\* The three direct-route membership lists of the bound chain for the request.
DirectLists ==
  IF chainId = "ETH" THEN easyListsETH(Args) ELSE easyListsL2(chainId, Args)

InRedeems == includes(DirectLists.easyRedeems, Args.tokenTo)
InDeposits == includes(DirectLists.easyDeposits, Args.tokenTo)
InDepositETH == includes(DirectLists.easyDepositETH, Args.tokenTo)

\* The four parameters of a direct call on the destination token.
DirectParams ==
  <<req.addressTo, req.chainIdTo, address(Args.tokenTo, chainId), req.amountFrom>>

\* The build call populated one call and resolved to it, a call on the zap bridge with
\* the given tag, parameters and native value.
SelectedOnly(tag, params, value) ==
  /\ Cardinality(Populated) = 1
  /\ result.status = "resolved"
  /\ result.value = Shape("zapBridge", tag, params, value)

\* The gate in the order redeem, deposit, depositETH, with the given parameters of the
\* depositETH call.
DirectGate(nativeParams) ==
  IF InRedeems THEN SelectedOnly("redeem", DirectParams, <<>>)
  ELSE IF InDeposits THEN SelectedOnly("deposit", DirectParams, <<>>)
  ELSE IF InDepositETH THEN SelectedOnly("depositETH", nativeParams, <<req.amountFrom>>)
  ELSE TRUE

ExecKinds == {exec.trace[i].kind : i \in DOMAIN exec.trace}

\* The three pre-flight checks of the execute call in flight.
RouteOk == swapSupported(chainId, exec.given)[1]
BalanceOk == exec.balance.st = "ok" /\ exec.balance.v >= exec.given.amountFrom
AllowanceOk == exec.allowance.st = "ok" /\ exec.allowance.v >= exec.given.amountFrom
BalanceLow == exec.balance.st = "ok" /\ exec.balance.v < exec.given.amountFrom
AllowanceLow == exec.allowance.st = "ok" /\ exec.allowance.v < exec.given.amountFrom

\* C22: executeBridgeTokenTransaction builds and sends a transaction only after the
\* route was found supported and the balance and the allowance of tokenFrom were both
\* answered with at least amountFrom; a call with a failed check settles rejected,
\* with nothing built or sent; a refused route rejects before the signer, the balance
\* and the allowance are asked.
C22_SendOnlyAfterPreflight ==
  /\ (ExecKinds \cap {"buildBridgeTokenTransaction", "sendTransaction"} # {}) =>
       RouteOk /\ BalanceOk /\ AllowanceOk
  /\ (exec.pc = "done" /\ (~RouteOk \/ BalanceLow \/ AllowanceLow)) =>
       /\ exec.result.status = "rejected"
       /\ ExecKinds \cap {"buildBridgeTokenTransaction", "sendTransaction"} = {}
  /\ (exec.pc # "idle" /\ ~RouteOk) =>
       /\ exec.pc = "done"
       /\ ExecKinds = {"swapSupported"}

C22_Witness ==
  /\ exec.pc = "done" /\ exec.result.status = "resolved"
  /\ "sendTransaction" \in ExecKinds
  /\ exec.given.amountFrom = MaxAmount
  /\ exec.balance.v = MaxAmount /\ exec.allowance.v = MaxAmount

\* The wrapped pool form of a naked native gas token; any other token is itself.
Wrapped(t) ==
  CASE t = "ETH" -> "WETH"
    [] t = "AVAX" -> "WAVAX"
    [] t = "MOVR" -> "WMOVR"
    [] OTHER -> t

\* makeBridgeTokenArgs ran for the request and returned.
TokenArgsReturned ==
  /\ \/ op = "build"
     \/ op = "estimate" /\ Supported /\ pc # "checked"
  /\ ~TokenArgs.threw

\* C23: the pair makeBridgeTokenArgs returns holds no naked native gas token: ETH is
\* returned as WETH, AVAX as WAVAX, MOVR as WMOVR and every other token as it was
\* passed, and normalising the returned pair again changes nothing.
C23_TokenNormalisation ==
  TokenArgsReturned =>
    /\ TokenArgs.tokenFrom = Wrapped(req.tokenFrom)
    /\ TokenArgs.tokenTo = Wrapped(req.tokenTo)
    /\ bridgeTokens(TokenArgs.tokenFrom, TokenArgs.tokenTo)
         = <<TokenArgs.tokenFrom, TokenArgs.tokenTo>>

\* C24: when an executeBridgeTokenTransaction call has settled, resolved or rejected,
\* with the route check and the build it makes on the way, every field of the request
\* object the caller passed (tokenFrom, tokenTo, chainIdTo, amountFrom, amountTo,
\* addressTo) has the value it had when the call was made.
C24_RequestNotMutated ==
  exec.pc = "done" => exec.args = exec.given

====
